---- MODULE Spec2Model ----
(***************************************************************************)
(* Squad Selector (blocks/optimizer.py), Lineup Selector                   *)
(* (blocks/xi_picker.py) and Transfer Planner (blocks/transfer_planner.py) *)
(* of FPL-Predictor.                                                       *)
(*                                                                         *)
(* Units.  Prices (now_cost, bank, budget) are integers counting tenths of *)
(* a money unit (4.5 -> 45).  Period projections (exp_points_scaled) and   *)
(* lineup objectives are integers counting multiples of the planner's      *)
(* tolerance 1e-9, so that the tolerance itself is the integer Eps = 1.    *)
(* Horizon values are integers, reliability and the reliability weight are *)
(* tenths, and score is therefore carried multiplied by 100.               *)
(*                                                                         *)
(* A DataFrame is a sequence of records (one per row, in row order); the   *)
(* row label of row i is i (a RangeIndex).                                 *)
(***************************************************************************)
EXTENDS Integers, Sequences, FiniteSets, TLC

VARIABLES
    \* pick_initial_squad: arguments and returned dict
    candidates, budget, pos_limits, club_limit, reliability_weight,
    solver_time_limit, result,
    \* pick_starting_xi: arguments and returned dict
    squad, preds, target_gw, mins, lineup,
    \* plan_transfers_greedy: arguments, loop state, control
    market, gw_list, start_bank, topK_per_pos, cur_squad, bank, records, pc

vars == << candidates, budget, pos_limits, club_limit, reliability_weight,
           solver_time_limit, result,
           squad, preds, target_gw, mins, lineup,
           market, gw_list, start_bank, topK_per_pos, cur_squad, bank, records, pc >>

selectorVars == << candidates, budget, pos_limits, club_limit, reliability_weight,
                   solver_time_limit, result >>
plannerVars2 == << market, gw_list, start_bank, topK_per_pos, cur_squad, bank, records >>

-----------------------------------------------------------------------------
(* Program constants *)

SquadSize == 15
XISize == 11
DefaultClubCap == 3
Eps == 1
MinCost == 35
MaxCost == 155

Positions == {"GKP", "DEF", "MID", "FWD"}

None == [none |-> TRUE]

\* an exception leaving a call
ValueError == [raised |-> "ValueError"]
IndexError == [raised |-> "IndexError"]
KeyError == [raised |-> "KeyError"]
Raised(r) == "raised" \in DOMAIN r

-----------------------------------------------------------------------------
(* Generic helpers *)

Range(s) == {s[i] : i \in 1..Len(s)}

RECURSIVE SumSeq(_)
SumSeq(s) == IF s = << >> THEN 0 ELSE Head(s) + SumSeq(Tail(s))

RECURSIVE SumOver(_, _, _)
\* sum of v[i] over the i in S, i ranging over 1..n
SumOver(v, S, n) ==
    IF n = 0 THEN 0 ELSE (IF n \in S THEN v[n] ELSE 0) + SumOver(v, S, n - 1)

MaxOf(S) == CHOOSE m \in S : \A x \in S : x <= m

RECURSIVE Flatten(_)
Flatten(ss) == IF ss = << >> THEN << >> ELSE Head(ss) \o Flatten(Tail(ss))

\* the rows of s whose indices are in S, in row order (DataFrame.loc[list])
Rows(s, S) ==
    LET T == S \cap (1..Len(s))
    IN [k \in 1..Cardinality(T) |->
           s[CHOOSE i \in T : Cardinality({j \in T : j < i}) = k - 1]]

\* a stable descending sort (sort_values on several columns, nlargest with
\* keep="first"): rows by descending key, equal keys in row order.  Row i
\* comes after the rows of larger key and the earlier rows of equal key.
SortDesc(s, key(_)) ==
    LET keys == [i \in 1..Len(s) |-> key(s[i])]
        rank == [i \in 1..Len(s) |->
                    1 + Cardinality({j \in 1..Len(s) :
                                       keys[j] > keys[i] \/ (keys[j] = keys[i] /\ j < i)})]
    IN [k \in 1..Len(s) |-> s[CHOOSE i \in 1..Len(s) : rank[i] = k]]

\* the orderings of 1..n
Perms(n) == {f \in [1..n -> 1..n] : \A a, b \in 1..n : f[a] = f[b] => a = b}

\* the row labels of the rows of a position
PosIdx(pool, pos) == {i \in 1..Len(pool) : pool[i].position = pos}

\* DataFrame.nlargest(n, col), keep="first": the n rows of largest key, in
\* descending key order, equal keys in row order
NLargest(s, n, key(_)) ==
    LET sorted == SortDesc(s, key)
    IN IF n <= 0 THEN << >>
       ELSE IF n >= Len(sorted) THEN sorted ELSE SubSeq(sorted, 1, n)

-----------------------------------------------------------------------------
(* The integer-programming solver (PuLP / CBC), as the code uses it:       *)
(* binary variables over a row set, a linear objective, linear             *)
(* constraints.  F is the set of assignments (as sets of chosen rows)      *)
(* meeting the constraints, val the objective.                             *)
(*   status  1 : an optimal assignment                                     *)
(*   status -1 : no assignment meets the constraints; the variable values  *)
(*               left behind are not a solution (any of junk)              *)
(*   with a time limit the solver may stop on an incumbent: any member of  *)
(*   F, reported by the library with status 1 or 0                         *)

Optimum(F, val(_)) == MaxOf({val(S) : S \in F})

ArgMax(F, val(_)) == LET best == Optimum(F, val) IN {S \in F : val(S) = best}

Solve(F, val(_), timeLimit, junk) ==
    IF F = {} THEN {[status |-> -1, chosen |-> J] : J \in junk}
    ELSE {[status |-> 1, chosen |-> S] : S \in ArgMax(F, val)}
         \cup (IF timeLimit = None THEN {}
               ELSE {[status |-> st, chosen |-> S] : st \in {0, 1}, S \in F})

LpStatus(st) == CASE st = 1 -> "Optimal"
                  [] st = 0 -> "Not Solved"
                  [] st = -1 -> "Infeasible"
                  [] OTHER -> "Undefined"

-----------------------------------------------------------------------------
(* blocks/optimizer.py *)

\* a numeric cell that pd.to_numeric(errors="coerce") turns into NaN
NaN == -1

\* pd.to_numeric(col, errors="coerce").fillna(0.0)
ToNumericFill0(x) == IF x = NaN THEN 0 ELSE x

\* PositionLimits()
DefaultPosLimits == ("GKP" :> 2) @@ ("DEF" :> 5) @@ ("MID" :> 5) @@ ("FWD" :> 3) @@ ("SQUAD" :> 15)

RequiredCols == {"web_name", "team_short", "team_id", "position",
                 "now_cost", "horizon_xpts", "mean_reliability"}

\* lines 39-44: the uid column
Uid(df, row) ==
    IF "player_id" \in df.cols /\ \E i \in 1..Len(df.rows) : df.rows[i].player_id # NaN
    THEN row.player_id
    ELSE row.player_key

\* the sort on horizon_xpts alone
DedupKeyValueOnly(r) == r.horizon_xpts

\* lines 57-59: sort_values(["horizon_xpts", "now_cost"], ascending=[False, True])
\* then drop_duplicates(subset=["uid"], keep="first")
DedupKey(r) == r.horizon_xpts * (MaxCost + 1) * 10 - r.now_cost

\* drop_duplicates that drops nothing
DropDuplicatesKeepAll(s) == s

DropDuplicates(s) ==
    Rows(s, {i \in 1..Len(s) : ~\E j \in 1..(i - 1) : s[j].uid = s[i].uid})

\* _validate_pool past its checks: typed, filtered and deduplicated rows
CleanPool(df) ==
    LET typed == [i \in 1..Len(df.rows) |->
                 [df.rows[i] EXCEPT !.now_cost = ToNumericFill0(@),
                                    !.horizon_xpts = ToNumericFill0(@),
                                    !.mean_reliability = ToNumericFill0(@)]
                 @@ [uid |-> Uid(df, df.rows[i])]]
        positioned == SelectSeq(typed, LAMBDA r : r.position \in Positions)
        priced == SelectSeq(positioned,
                            LAMBDA r : r.now_cost >= MinCost /\ r.now_cost <= MaxCost)
    IN DropDuplicates(SortDesc(priced, DedupKey))

\* _validate_pool without the identifier check
ValidatePoolAnyIds(df) ==
    IF RequiredCols \ df.cols # {} THEN ValueError
    ELSE [pool |-> CleanPool(df)]

\* _validate_pool(df): the cleaned pool (field pool), or the ValueError
ValidatePool(df) ==
    IF RequiredCols \ df.cols # {} THEN ValueError
    ELSE IF "player_id" \notin df.cols /\ "player_key" \notin df.cols THEN ValueError
    \* line 44 reads player_key when player_id holds no value
    ELSE IF "player_key" \notin df.cols /\ \A i \in 1..Len(df.rows) : df.rows[i].player_id = NaN
    THEN KeyError
    ELSE [pool |-> CleanPool(df)]

\* line 88, times 100: horizon_xpts * ((1 - w) + w * mean_reliability)
Score(r, w) == r.horizon_xpts * ((10 - w) * 10 + w * r.mean_reliability)

KSubsets(S, k) == {T \in SUBSET S : Cardinality(T) = k}

CostOf(pool, S) == SumOver([i \in 1..Len(pool) |-> pool[i].now_cost], S, Len(pool))
ScoreOf(pool, S) == SumOver([i \in 1..Len(pool) |-> pool[i].score], S, Len(pool))

\* lines 111-113: one constraint per team_id group (a NaN team_id forms no group)
ClubLimitOk(pool, S, limit) ==
    \A t \in {pool[i].team_id : i \in 1..Len(pool)} \ {NaN} :
        Cardinality({i \in S : pool[i].team_id = t}) <= limit

\* SquadFeasible with the budget constraint of line 99 left out
SquadFeasibleNoBudget(pool, bud, lim, club) ==
    LET byPos == {g \cup d \cup m \cup f :
                     g \in KSubsets(PosIdx(pool, "GKP"), lim["GKP"]),
                     d \in KSubsets(PosIdx(pool, "DEF"), lim["DEF"]),
                     m \in KSubsets(PosIdx(pool, "MID"), lim["MID"]),
                     f \in KSubsets(PosIdx(pool, "FWD"), lim["FWD"])}
    IN {S \in byPos : /\ Cardinality(S) = lim["SQUAD"]
                      /\ ClubLimitOk(pool, S, club)}

\* SquadFeasible with the budget as a floor on the spend
SquadFeasibleMinSpend(pool, bud, lim, club) ==
    {S \in SquadFeasibleNoBudget(pool, bud, lim, club) : CostOf(pool, S) >= bud - 40}

\* the constraint set of lines 98-113.  Every row of the pool has one of the
\* four positions, so the assignments meeting the four position equalities
\* are the unions of one k-subset per position.
SquadFeasible(pool, bud, lim, club) ==
    LET byPos == {g \cup d \cup m \cup f :
                     g \in KSubsets(PosIdx(pool, "GKP"), lim["GKP"]),
                     d \in KSubsets(PosIdx(pool, "DEF"), lim["DEF"]),
                     m \in KSubsets(PosIdx(pool, "MID"), lim["MID"]),
                     f \in KSubsets(PosIdx(pool, "FWD"), lim["FWD"])}
    IN {S \in byPos : /\ CostOf(pool, S) <= bud
                      /\ Cardinality(S) = lim["SQUAD"]
                      /\ ClubLimitOk(pool, S, club)}

\* what CBC may leave in x when the squad MILP is infeasible
SquadJunk(pool) == {{}, 1..Len(pool)}

\* line 131
SquadStatus(st) == CASE st = 1 -> "Optimal" [] st = -1 -> "Infeasible" [] OTHER -> "0"

\* lines 119-138: the returned dict for one solver outcome
SquadReport(pool, sol) ==
    LET selected == Rows(pool, sol.chosen)
    IN [status |-> SquadStatus(sol.status),
        selected |-> selected,
        totals |-> [cost |-> SumSeq([k \in 1..Len(selected) |-> selected[k].now_cost]),
                    horizon_xpts |-> SumSeq([k \in 1..Len(selected) |-> selected[k].horizon_xpts]),
                    score |-> SumSeq([k \in 1..Len(selected) |-> selected[k].score])]]

\* lines 86-88: the pool with its score column
ScoredPool(pool, w) == [i \in 1..Len(pool) |-> pool[i] @@ [score |-> Score(pool[i], w)]]

\* every outcome of pick_initial_squad(candidates, budget, pos_limits,
\* club_limit, reliability_weight, solver_time_limit)
pick_initial_squad(cands, bud, lim, club, w, timeLimit) ==
    LET valid == ValidatePool(cands)
    IN IF Raised(valid) THEN {valid}
       ELSE LET pool == ScoredPool(valid.pool, w)
            IN {SquadReport(pool, sol) :
                   sol \in Solve(SquadFeasible(pool, bud, lim, club),
                                 LAMBDA S : ScoreOf(pool, S), timeLimit, SquadJunk(pool))}

-----------------------------------------------------------------------------
(* blocks/xi_picker.py *)

\* gw_preds[gw_preds["gw"] == target_gw][["player_id", "exp_points_scaled"]]
\* a player_id cell holding the text of the number n (a column read as
\* strings) is written Text(n); any other cell is the number itself
Text(n) == 1000 + n
IsText(c) == c >= 1000

\* lines 32-34: df["player_id"] = pd.to_numeric(df["player_id"],
\* errors="coerce").astype("Int64"), assigned into the frame the caller passed
CoerceIds(df) ==
    [i \in 1..Len(df) |->
        IF IsText(df[i].player_id) THEN [df[i] EXCEPT !.player_id = @ - 1000] ELSE df[i]]

PredsOfGw(gw_preds, gw) == SelectSeq(gw_preds, LAMBDA r : r.gw = gw)

\* MergeRow as an inner join: a row of df without a match is dropped
MergeRowInner(row, p) ==
    LET m == SelectSeq(p, LAMBDA r : r.player_id = row.player_id)
    IN [k \in 1..Len(m) |-> row @@ [xpts_gw |-> m[k].exp_points_scaled]]

\* df.merge(p, on="player_id", how="left") followed by fillna(0.0) on xpts_gw:
\* one output row per matching row of p, in p's order; a row of df without
\* a match is kept once with xpts_gw = 0
MergeRow(row, p) ==
    LET m == SelectSeq(p, LAMBDA r : r.player_id = row.player_id)
    IN IF m = << >> THEN << row @@ [xpts_gw |-> 0] >>
       ELSE [k \in 1..Len(m) |-> row @@ [xpts_gw |-> m[k].exp_points_scaled]]

MergeXpts(df, p) == Flatten([i \in 1..Len(df) |-> MergeRow(df[i], p)])

\* all 0/1 assignments y with sum(y) == 11 over the 15 rows of the pool
StarterSets == {S \in SUBSET (1..SquadSize) : Cardinality(S) = XISize}

\* XIFeasible with "at least one goalkeeper" for "exactly one"
XIFeasibleGkAtLeastOne(pool, m) ==
    LET gk == PosIdx(pool, "GKP")
        df == PosIdx(pool, "DEF")
        md == PosIdx(pool, "MID")
        fw == PosIdx(pool, "FWD")
    IN {S \in StarterSets :
          /\ Cardinality(S \cap gk) >= 1
          /\ Cardinality(S \cap df) >= m.min_def
          /\ Cardinality(S \cap md) >= m.min_mid
          /\ Cardinality(S \cap fw) >= m.min_fwd}

\* the constraint set of the lineup MILP
XIFeasible(pool, m) ==
    LET gk == PosIdx(pool, "GKP")
        df == PosIdx(pool, "DEF")
        md == PosIdx(pool, "MID")
        fw == PosIdx(pool, "FWD")
    IN {S \in StarterSets :
          /\ Cardinality(S \cap gk) = 1
          /\ Cardinality(S \cap df) >= m.min_def
          /\ Cardinality(S \cap md) >= m.min_mid
          /\ Cardinality(S \cap fw) >= m.min_fwd}

\* the xpts_gw column of the pool
XptsCol(pool) == [i \in 1..Len(pool) |-> pool[i].xpts_gw]

\* the objective of the lineup MILP: sum of xpts_gw * y over the rows
XIValue(xpts, S) == SumOver(xpts, S, Len(xpts))

\* what CBC may leave in y when the lineup MILP is infeasible
XIJunk == {{}, 1..XISize, 1..SquadSize}

XIPoolOk(pool) ==
    /\ Len(pool) = SquadSize
    /\ {pool[i].position : i \in 1..Len(pool)} \subseteq Positions

XIKey(r) == r.xpts_gw

\* sort_values("xpts_gw", ascending=False) on one column runs the default
\* kind="quicksort", which is not a stable sort: every ordering of the rows
\* by descending xpts_gw is a possible result
XptsDescOrders(s) ==
    {[k \in 1..Len(s) |-> s[f[k]]] :
        f \in {g \in Perms(Len(s)) :
                  \A k \in 1..(Len(s) - 1) : s[g[k]].xpts_gw >= s[g[k + 1]].xpts_gw}}

\* lines 82-84: the rows xi_sorted.iloc[0] and xi_sorted.iloc[1] can be, as
\* pairs of positions in xi: the first two rows of an ordering of xi by
\* descending xpts_gw
TopTwo(xi) ==
    {t \in (1..Len(xi)) \X (1..Len(xi)) :
        /\ t[1] # t[2]
        /\ xi[t[1]].xpts_gw >= xi[t[2]].xpts_gw
        /\ \A k \in 1..Len(xi) : k \notin {t[1], t[2]} => xi[t[2]].xpts_gw >= xi[k].xpts_gw}

\* line 90: sort_values("xpts_gw").head(1) of the goalkeepers of the pool: a
\* goalkeeper of lowest xpts_gw, or no row when the pool has none
LowestGk(pool) ==
    LET gks == SelectSeq(pool, LAMBDA r : r.position = "GKP")
    IN IF gks = << >> THEN {<< >>}
       ELSE {<< gks[i] >> : i \in {j \in 1..Len(gks) :
                                     \A k \in 1..Len(gks) : gks[j].xpts_gw <= gks[k].xpts_gw}}

\* the order of the position labels as strings
PosRank(pos) == CASE pos = "DEF" -> 1 [] pos = "FWD" -> 2 [] pos = "GKP" -> 3 [] pos = "MID" -> 4

\* line 95: sort_values(["position", "xpts_gw"], ascending=[True, False]), a
\* stable sort on two columns
PrettyKey(r) == r.xpts_gw - PosRank(r.position) * 1000000
PrettyOrder(xi) == SortDesc(xi, PrettyKey)

\* lines 83-84: the fields of a captain or vice dict
CaptainCols == {"player_id", "web_name", "team_short", "position", "xpts_gw"}

\* lines 76-106: the dicts pick_starting_xi can return for one solver outcome
XIReports(pool, sol, gw) ==
    LET idx == 1..Len(pool)
        chosen_idx == sol.chosen
        xi == Rows(pool, chosen_idx)
        bench == Rows(pool, idx \ chosen_idx)
        bench_gk0 == SelectSeq(bench, LAMBDA r : r.position = "GKP")
        bench_gks == IF Len(bench_gk0) # 1 THEN LowestGk(pool) ELSE {bench_gk0}
        bench_out == SelectSeq(bench, LAMBDA r : r.position # "GKP")
    IN IF Len(xi) < 2 THEN {IndexError}
       ELSE {[status |-> LpStatus(sol.status),
              xi |-> PrettyOrder(xi),
              bench_gk |-> bg,
              bench_outfield |-> bo,
              captain |-> [c \in CaptainCols |-> xi[t[1]][c]],
              vice |-> [c \in CaptainCols |-> xi[t[2]][c]],
              target_gw |-> gw,
              objective |-> SumSeq([k \in 1..Len(xi) |-> xi[k].xpts_gw])] :
                t \in TopTwo(xi), bg \in bench_gks, bo \in XptsDescOrders(bench_out)}

\* every outcome of pick_starting_xi(squad, gw_preds, target_gw, ...)
pick_starting_xi(sq, gw_preds, gw, m, timeLimit) ==
    LET pool == MergeXpts(CoerceIds(sq), PredsOfGw(CoerceIds(gw_preds), gw))
        xpts == XptsCol(pool)
    IN IF ~XIPoolOk(pool) THEN {ValueError}
       ELSE UNION {XIReports(pool, sol, gw) :
                     sol \in Solve(XIFeasible(pool, m), LAMBDA S : XIValue(xpts, S),
                                   timeLimit, XIJunk)}

-----------------------------------------------------------------------------
(* blocks/transfer_planner.py *)

DefaultMins == [min_def |-> 3, min_mid |-> 2, min_fwd |-> 1]

\* The optimum of the lineup MILP, organised by position.  The constraints
\* tie the positions together only through how many rows of each are
\* chosen, and the objective is a sum over rows, so the optimum is the best,
\* over the admissible counts (1, d, m, f), of the best choice of that many
\* rows inside each position.
BestOfSize(xpts, cat, k) ==
    MaxOf({SumOver(xpts, S, Len(xpts)) : S \in {T \in SUBSET cat : Cardinality(T) = k}})

XIFormations(pool, m) ==
    LET nd == Cardinality(PosIdx(pool, "DEF"))
        nm == Cardinality(PosIdx(pool, "MID"))
        nf == Cardinality(PosIdx(pool, "FWD"))
    IN IF PosIdx(pool, "GKP") = {} THEN {}
       ELSE {c \in (m.min_def..nd) \X (m.min_mid..nm) \X (m.min_fwd..nf) :
                1 + c[1] + c[2] + c[3] = XISize}

XIOptimum(pool, m) ==
    LET xpts == XptsCol(pool)
        gk == BestOfSize(xpts, PosIdx(pool, "GKP"), 1)
        df == [d \in 0..Cardinality(PosIdx(pool, "DEF")) |-> BestOfSize(xpts, PosIdx(pool, "DEF"), d)]
        md == [d \in 0..Cardinality(PosIdx(pool, "MID")) |-> BestOfSize(xpts, PosIdx(pool, "MID"), d)]
        fw == [d \in 0..Cardinality(PosIdx(pool, "FWD")) |-> BestOfSize(xpts, PosIdx(pool, "FWD"), d)]
    IN MaxOf({gk + df[c[1]] + md[c[2]] + fw[c[3]] : c \in XIFormations(pool, m)})

\* trial["objective"] of pick_starting_xi(squad, gw_preds, target_gw=gw) as the
\* planner calls it (default minimums, no time limit): the objective of the
\* returned lineup, or the exception.  Every optimal lineup has the same
\* objective, so the value does not depend on which one the solver returns.
XIObjective(sq, gw_preds, gw) ==
    LET pool == MergeXpts(sq, PredsOfGw(gw_preds, gw))
    IN IF ~XIPoolOk(pool) THEN ValueError
       ELSE IF XIFormations(pool, DefaultMins) = {}
       THEN CHOOSE r \in pick_starting_xi(sq, gw_preds, gw, DefaultMins, None) : TRUE
       ELSE [objective |-> XIOptimum(pool, DefaultMins)]

\* _club_counts: value_counts of team_id as a dict
ClubCounts(sq) ==
    LET teams == {sq[i].team_id : i \in 1..Len(sq)}
    IN [t \in teams |-> Cardinality({i \in 1..Len(sq) : sq[i].team_id = t})]

\* _valid_after_transfer(squad, sell_row, buy_row, max_per_club)
ValidAfterTransfer(sq, sell_row, buy_row, max_per_club) ==
    LET cc == ClubCounts(sq)
        sell_team == sell_row.team_id
        buy_team == buy_row.team_id
        get(d, t) == IF t \in DOMAIN d THEN d[t] ELSE 0
        \* removing seller
        cc1 == (sell_team :> (get(cc, sell_team) - 1)) @@ cc
        cc2 == IF cc1[sell_team] <= 0
               THEN [t \in DOMAIN cc1 \ {sell_team} |-> cc1[t]]
               ELSE cc1
        \* adding buyer
        cc3 == (buy_team :> (get(cc2, buy_team) + 1)) @@ cc2
    IN \A t \in DOMAIN cc3 : cc3[t] <= max_per_club

\* the columns _apply_transfer copies from buy_row
TransferCols == {"player_id", "web_name", "team_short", "team_id", "position", "now_cost"}

\* _apply_transfer(squad, sell_idx, buy_row): a copy with the six columns of
\* row sell_idx overwritten, every other column of that row left as it was
ApplyTransfer(sq, sell_idx, buy_row) ==
    [sq EXCEPT ![sell_idx] =
        [c \in DOMAIN sq[sell_idx] |-> IF c \in TransferCols THEN buy_row[c] ELSE sq[sell_idx][c]]]

\* lines 93-105: the market joined with the period's projections, and per
\* position its topK rows by xpts_gw
MarketGw(mkt, gw_preds, gw) == MergeXpts(mkt, PredsOfGw(gw_preds, gw))

\* CandPos with one row more than the breadth
CandPosOneMore(market_gw, pos, topK) ==
    NLargest(SelectSeq(market_gw, LAMBDA r : r.position = pos), topK + 1, XIKey)

\* CandPos without the position slice
CandPosAnyPosition(market_gw, pos, topK) == NLargest(market_gw, topK, XIKey)

CandPos(market_gw, pos, topK) ==
    NLargest(SelectSeq(market_gw, LAMBDA r : r.position = pos), topK, XIKey)

\* Already with no asset counted as owned
AlreadyNone(sq) == {}

\* lines 119-124: the candidate buys for one squad row
Already(sq) == {sq[i].player_id : i \in 1..Len(sq)}

\* Affordable with the budget filter left out
AffordableAlways(buy, bnk, out_cost) == TRUE

\* Affordable with a strict comparison
AffordableStrict(buy, bnk, out_cost) == buy.now_cost < bnk + out_cost

\* Affordable with one price step too many
AffordableOneAbove(buy, bnk, out_cost) == buy.now_cost <= bnk + out_cost + 1

Affordable(buy, bnk, out_cost) == buy.now_cost <= bnk + out_cost

BuyPool(sq, market_gw, row, bnk, topK) ==
    LET notOwned == SelectSeq(CandPos(market_gw, row.position, topK),
                              LAMBDA r : r.player_id \notin Already(sq))
    IN SelectSeq(notOwned, LAMBDA r : Affordable(r, bnk, row.now_cost))

\* the club limit the planner applies (line 130)
PlannerClubCap == DefaultClubCap

\* Improves without the tolerance
ImprovesNoTolerance(gain, best_gain) == gain > best_gain

\* Improves measured against the tolerance alone, not against the best so far
ImprovesOnBaseOnly(gain, best_gain) == gain > Eps

\* Improves with the tolerance itself counted as an improvement
ImprovesAtTolerance(gain, best_gain) == gain >= best_gain + Eps

\* line 136: does this trial replace the best so far
Improves(gain, best_gain) == gain > best_gain + Eps

\* BankAfter without the proceeds of the sale
BankAfterNoProceeds(bnk, out_cost, buy_cost) == bnk - buy_cost

\* line 140: the bank after selling at out_cost and buying at buy_cost
BankAfter(bnk, out_cost, buy_cost) == bnk + out_cost - buy_cost

\* lines 133-140: one candidate (squad row idx, buy) against the best so far
TryBuy(st, sq, gw_preds, gw, bnk, base_obj, idx, buy) ==
    IF st.raised \/ ~ValidAfterTransfer(sq, sq[idx], buy, PlannerClubCap) THEN st
    ELSE LET trial_squad == ApplyTransfer(sq, idx, buy)
             trial == XIObjective(trial_squad, gw_preds, gw)
         IN IF Raised(trial) THEN [st EXCEPT !.raised = TRUE, !.exc = trial]
            ELSE LET gain == trial.objective - base_obj
                 IN IF Improves(gain, st.best_gain)
                    THEN [raised |-> FALSE, exc |-> None,
                          best_gain |-> gain,
                          best |-> << [idx |-> idx, sell |-> sq[idx], buy |-> buy,
                                       new_obj |-> trial.objective] >>,
                          best_squad |-> trial_squad,
                          best_bank |-> BankAfter(bnk, sq[idx].now_cost, buy.now_cost)]
                    ELSE st

RECURSIVE InnerLoop(_, _, _, _, _, _, _, _, _)
\* for _, buy in pool.iterrows(), from row k of the pool on; an exception
\* ends the loop
InnerLoop(st, sq, gw_preds, gw, bnk, base_obj, idx, pool, k) ==
    IF st.raised \/ k > Len(pool) THEN st
    ELSE InnerLoop(TryBuy(st, sq, gw_preds, gw, bnk, base_obj, idx, pool[k]),
                   sq, gw_preds, gw, bnk, base_obj, idx, pool, k + 1)

RECURSIVE OuterLoop(_, _, _, _, _, _, _, _, _)
\* for idx, row in squad.iterrows(), from row idx on
OuterLoop(st, sq, market_gw, gw_preds, gw, bnk, topK, base_obj, idx) ==
    IF st.raised \/ idx > Len(sq) THEN st
    ELSE OuterLoop(InnerLoop(st, sq, gw_preds, gw, bnk, base_obj, idx,
                             BuyPool(sq, market_gw, sq[idx], bnk, topK), 1),
                   sq, market_gw, gw_preds, gw, bnk, topK, base_obj, idx + 1)

Hold(gw, bnk, base_obj) ==
    [gw |-> gw, action |-> "HOLD",
     buy_id |-> None, buy_name |-> None, buy_team |-> None, buy_pos |-> None,
     buy_price |-> None,
     sell_id |-> None, sell_name |-> None, sell_team |-> None, sell_pos |-> None,
     sell_price |-> None,
     bank_after |-> bnk, base_xi_xpts |-> base_obj, new_xi_xpts |-> base_obj, gain |-> 0]

Swap(gw, b, best_bank, base_obj) ==
    [gw |-> gw, action |-> "BUY",
     buy_id |-> b.buy.player_id, buy_name |-> b.buy.web_name,
     buy_team |-> b.buy.team_short,
     buy_pos |-> b.buy.position, buy_price |-> b.buy.now_cost,
     sell_id |-> b.sell.player_id, sell_name |-> b.sell.web_name,
     sell_team |-> b.sell.team_short,
     sell_pos |-> b.sell.position, sell_price |-> b.sell.now_cost,
     bank_after |-> best_bank, base_xi_xpts |-> base_obj,
     new_xi_xpts |-> b.new_obj, gain |-> b.new_obj - base_obj]

\* _best_single_transfer_for_gw: [dec, squad, bank], or the exception of a
\* pick_starting_xi call
BestSingleTransferForGw(sq, mkt, gw_preds, gw, bnk, topK) ==
    LET base == XIObjective(sq, gw_preds, gw)
    IN IF Raised(base) THEN base
       ELSE LET base_obj == base.objective
                st0 == [raised |-> FALSE, exc |-> None, best_gain |-> 0, best |-> << >>,
                        best_squad |-> sq, best_bank |-> bnk]
                st == OuterLoop(st0, sq, MarketGw(mkt, gw_preds, gw), gw_preds, gw,
                                bnk, topK, base_obj, 1)
            IN IF st.raised THEN st.exc
               ELSE IF st.best = << >>
               THEN [dec |-> Hold(gw, bnk, base_obj), squad |-> sq, bank |-> bnk]
               ELSE [dec |-> Swap(gw, st.best[1], st.best_bank, base_obj),
                     squad |-> st.best_squad, bank |-> st.best_bank]

-----------------------------------------------------------------------------
(* Inputs of the checked runs *)

MaxSeed == 2
MaxBank == 2
MaxTopK == 2
MaxGw == 2
BudgetSlack == 1

\* <<player_id, position, team_id, now_cost>>
AssetTable ==
    << << 1, "GKP", 1, 45>>, << 2, "GKP", 2, 40>>,
       << 3, "DEF", 1, 50>>, << 4, "DEF", 2, 45>>, << 5, "DEF", 3, 45>>,
       << 6, "DEF", 3, 40>>, << 7, "DEF", 4, 40>>,
       << 8, "MID", 4, 80>>, << 9, "MID", 5, 70>>, <<10, "MID", 5, 60>>,
       <<11, "MID", 6, 50>>, <<12, "MID", 6, 45>>,
       <<13, "FWD", 7, 90>>, <<14, "FWD", 7, 70>>, <<15, "FWD", 8, 45>>,
       <<16, "GKP", 8, 41>>, <<17, "DEF", 3, 41>>, <<18, "DEF", 5, 46>>,
       <<19, "MID", 1, 46>>, <<20, "FWD", 2, 46>>, <<21, "FWD", 8, 47>> >>

NAssets == Len(AssetTable)

\* a market row: player_id, web_name, team_short, team_id, position, now_cost
Asset(i) ==
    LET a == AssetTable[i]
    IN [player_id |-> a[1], web_name |-> a[1], team_short |-> a[3], team_id |-> a[3],
        position |-> a[2], now_cost |-> a[4]]

\* a squad row as pick_initial_squad saves it: the market columns and uid
Owned(a) == a @@ [uid |-> a.player_id]

MoveTo(a, team) == [a EXCEPT !.team_id = team, !.team_short = team]

\* at most two assets of any club
SquadA == [i \in 1..SquadSize |-> Owned(Asset(i))]
\* three assets of club 3
SquadB == [SquadA EXCEPT ![7] = MoveTo(SquadA[7], 3)]

MarketOf(sq) ==
    [i \in 1..NAssets |->
        IF i <= Len(sq) THEN [c \in TransferCols |-> sq[i][c]] ELSE Asset(i)]

TotalCost(sq) == SumSeq([i \in 1..Len(sq) |-> sq[i].now_cost])

MaxClubCount(sq) == MaxOf({ClubCounts(sq)[t] : t \in DOMAIN ClubCounts(sq)})

\* the squads a run starts from, each with a club cap it satisfies
SquadConfigs == {c \in {SquadA, SquadB} \X {2, 3} : MaxClubCount(c[1]) <= c[2]}

\* a projection table: rows (player_id, gw, exp_points_scaled); some
\* (player, gw) pairs have no row, and for seed 0 one pair has two rows.
\* The table of seed 2 is level for its first two periods: in the
\* first every owned asset projects 5 and the DEF 17 and 18 project 6; in the
\* second the FWD 13 and 14 project 9, the FWD 15 projects 2 and the FWD 21
\* projects 10.
LevelTable ==
    << << 5, 5, 5, 5, 5, 5, 5, 5, 5, 5, 5, 5, 5, 5, 5, 0, 6, 6, 0, 0, 0 >>,
       << 5, 5, 5, 5, 5, 5, 5, 5, 5, 5, 5, 5, 9, 9, 2, 0, 0, 0, 0, 0, 10 >> >>
\* values under which forward 13 is sold for forward 20 in period 1 and
\* bought back for it in period 2
RebuyTable ==
    << << 5, 5, 5, 5, 5, 5, 5, 5, 5, 5, 5, 5, 0, 5, 5, 0, 0, 0, 0, 9, 0 >>,
       << 5, 5, 5, 5, 5, 5, 5, 5, 5, 5, 5, 5, 9, 5, 5, 0, 0, 0, 0, 0, 0 >> >>
\* the projection table of those values: a row for every asset and each of
\* the two periods
RebuyPreds ==
    [k \in 1..(NAssets * Len(RebuyTable)) |->
        [player_id |-> ((k - 1) % NAssets) + 1,
         gw |-> ((k - 1) \div NAssets) + 1,
         exp_points_scaled |-> RebuyTable[((k - 1) \div NAssets) + 1][((k - 1) % NAssets) + 1]]]
IsLevel(gw, seed) == seed = 2 /\ gw \in 1..Len(LevelTable)
PredValue(pid, gw, seed) ==
    IF IsLevel(gw, seed) THEN LevelTable[gw][pid]
    ELSE 2 + ((pid * 5 + gw * 3 + seed * 7) % 4)
PredMissing(pid, gw, seed) == ~IsLevel(gw, seed) /\ (pid + gw + seed) % 6 = 0
PredRow(pid, gw, seed) ==
    [player_id |-> pid, gw |-> gw, exp_points_scaled |-> PredValue(pid, gw, seed)]
PredTable(seed) ==
    SelectSeq([k \in 1..(NAssets * MaxGw) |->
                  PredRow(((k - 1) % NAssets) + 1, ((k - 1) \div NAssets) + 1, seed)],
              LAMBDA r : ~PredMissing(r.player_id, r.gw, seed))
    \o (IF seed = 0 THEN << PredRow(3, MaxGw, seed) >> ELSE << >>)

GwLists == {[i \in 1..MaxGw |-> i], [i \in 1..MaxGw |-> MaxGw + 1 - i]}

-----------------------------------------------------------------------------
(* plan_transfers_greedy *)

PlanInit ==
    /\ \E c \in SquadConfigs :
          /\ squad = c[1]
          /\ club_limit = c[2]
          /\ market = MarketOf(c[1])
          /\ budget = TotalCost(c[1]) + BudgetSlack
    /\ preds \in {PredTable(seed) : seed \in 0..MaxSeed} \cup {RebuyPreds}
    /\ gw_list \in GwLists
    /\ start_bank \in 0..MaxBank
    /\ topK_per_pos \in 0..MaxTopK
    /\ preds = RebuyPreds => (squad = SquadA /\ start_bank = 0 /\ gw_list[1] = 1)
    \* lines 192-194
    /\ bank = start_bank
    /\ records = << >>
    /\ cur_squad = squad
    /\ pc = "loop"
    /\ candidates = << >> /\ pos_limits = None /\ reliability_weight = 0
    /\ solver_time_limit = None /\ result = None
    /\ target_gw = 0 /\ mins = DefaultMins /\ lineup = None

\* NextGw taking the periods from the end of the list
NextGwReversed(gws, recs) == gws[Len(gws) - Len(recs)]

\* line 196: the period the loop handles after len(recs) decisions
NextGw(gws, recs) == gws[Len(recs) + 1]

\* one iteration of the loop of lines 196-200
PlanPeriod ==
    /\ pc = "loop"
    /\ Len(records) < Len(gw_list)
    /\ LET gw == NextGw(gw_list, records)
           r == BestSingleTransferForGw(cur_squad, market, preds, gw, bank, topK_per_pos)
       IN IF Raised(r)
          THEN /\ pc' = "raised"
               /\ UNCHANGED << cur_squad, bank, records >>
          ELSE /\ records' = Append(records, r.dec)
               /\ cur_squad' = r.squad
               /\ bank' = r.bank
               /\ pc' = "loop"
    /\ UNCHANGED << squad, preds, market, gw_list, start_bank, topK_per_pos,
                    target_gw, mins, lineup, selectorVars >>

\* lines 202-203: plan_df and the final squad are returned
PlanReturn ==
    /\ pc = "loop"
    /\ Len(records) = Len(gw_list)
    /\ pc' = "done"
    /\ UNCHANGED << cur_squad, bank, records, squad, preds, market, gw_list,
                    start_bank, topK_per_pos, target_gw, mins, lineup, selectorVars >>

Next == PlanPeriod \/ PlanReturn

Spec == PlanInit /\ [][Next]_vars

-----------------------------------------------------------------------------
(* pick_starting_xi, called on its own (scripts/pick_xi.py) *)

SetPosition(a, pos) == [a EXCEPT !.position = pos]

\* squads pick_starting_xi can be handed: the planner's squads, squads with
\* one, three and no goalkeeper, a squad of 14 rows, a squad with an unknown
\* position, a squad with too few defenders, a squad whose player_id column
\* holds text
XISquads ==
    {SquadA, SquadB,
     [SquadA EXCEPT ![2] = SetPosition(SquadA[2], "DEF")],
     [SquadA EXCEPT ![15] = SetPosition(SquadA[15], "GKP")],
     [SquadA EXCEPT ![1] = SetPosition(SquadA[1], "MID"), ![2] = SetPosition(SquadA[2], "MID")],
     SubSeq(SquadA, 1, SquadSize - 1),
     [SquadA EXCEPT ![15] = SetPosition(SquadA[15], "AM")],
     [SquadA EXCEPT ![6] = SetPosition(SquadA[6], "FWD"), ![7] = SetPosition(SquadA[7], "FWD"),
                    ![5] = SetPosition(SquadA[5], "MID")],
     [i \in 1..SquadSize |-> [SquadA[i] EXCEPT !.player_id = Text(@)]]}

\* the projection tables pick_starting_xi is handed on its own: rows
\* (player_id, gw, exp_points_scaled) with few equal values; some (player,
\* gw) pairs have no row, and for seed 0 one pair has two rows
XIPredValue(pid, gw, seed) == (pid * 7 + gw * 3 + seed * 5) % 13
XIPredMissing(pid, gw, seed) == (pid + gw + seed) % 6 = 0
XIPredRow(pid, gw, seed) ==
    [player_id |-> pid, gw |-> gw, exp_points_scaled |-> XIPredValue(pid, gw, seed)]
XIPredTable(seed) ==
    SelectSeq([k \in 1..(NAssets * MaxGw) |->
                  XIPredRow(((k - 1) % NAssets) + 1, ((k - 1) \div NAssets) + 1, seed)],
              LAMBDA r : ~XIPredMissing(r.player_id, r.gw, seed))
    \o (IF seed = 0 THEN << XIPredRow(3, MaxGw, seed) >> ELSE << >>)

XIMins == {DefaultMins,
           [min_def |-> 4, min_mid |-> 3, min_fwd |-> 2],
           [min_def |-> 5, min_mid |-> 5, min_fwd |-> 1]}

XIInit ==
    /\ squad \in XISquads
    /\ preds \in {XIPredTable(seed) : seed \in 0..MaxSeed}
    /\ target_gw \in 1..MaxGw
    /\ mins \in XIMins
    /\ solver_time_limit \in {None, [seconds |-> 1]}
    /\ solver_time_limit # None => (squad = SquadA /\ mins # DefaultMins /\ target_gw = 1)
    /\ lineup = None
    /\ pc = "call"
    /\ candidates = << >> /\ pos_limits = None /\ reliability_weight = 0
    /\ budget = 0 /\ club_limit = DefaultClubCap /\ result = None
    /\ market = << >> /\ gw_list = << >> /\ start_bank = 0 /\ topK_per_pos = 0
    /\ cur_squad = << >> /\ bank = 0 /\ records = << >>

PickStartingXI ==
    /\ pc = "call"
    /\ \E r \in pick_starting_xi(squad, preds, target_gw, mins, solver_time_limit) :
          /\ lineup' = r
          /\ pc' = IF Raised(r) THEN "raised" ELSE "returned"
    \* lines 32-34 assign into the caller's frames
    /\ squad' = CoerceIds(squad)
    /\ preds' = CoerceIds(preds)
    /\ UNCHANGED << target_gw, mins, selectorVars,
                    market, gw_list, start_bank, topK_per_pos, cur_squad, bank, records >>

XINext == PickStartingXI

SpecXI == XIInit /\ [][XINext]_vars

-----------------------------------------------------------------------------
(* pick_initial_squad, called on its own (scripts/optimize_squad.py) *)

MaxBudgetStep == 3
MaxWeight == 1

HorizonValue(pid, seed) == ((pid * 7 + seed * 5) % 9) + 1
Reliability(pid, seed) == (pid * 3 + seed) % 11

\* a raw candidate row
Candidate(i, seed) ==
    Asset(i) @@ [player_key |-> 100 + i,
                 horizon_xpts |-> HorizonValue(i, seed),
                 mean_reliability |-> Reliability(i, seed)]

\* the raw table: the market's assets, then rows the builder has to drop or
\* merge: a second row for player 3 (cheaper, same value), a second row for
\* player 8 (higher value), a manager row, a placeholder price, an
\* unparseable price
RawRows(seed) ==
    [i \in 1..NAssets |-> Candidate(i, seed)]
    \o << [Candidate(3, seed) EXCEPT !.now_cost = 48],
          [Candidate(8, seed) EXCEPT !.horizon_xpts = 11, !.now_cost = 82],
          [Candidate(9, seed) EXCEPT !.player_id = 30, !.player_key = 130, !.position = "AM"],
          [Candidate(13, seed) EXCEPT !.player_id = 31, !.player_key = 131, !.now_cost = 30,
                                      !.horizon_xpts = 12],
          [Candidate(14, seed) EXCEPT !.player_id = 32, !.player_key = 132, !.now_cost = NaN,
                                      !.horizon_xpts = 12] >>

AllCols == RequiredCols \cup {"player_id", "player_key"}

\* the columns a raw table can come with: all of them, all but one, and
\* the required ones without any identifier
ColSets == {AllCols} \cup {AllCols \ {c} : c \in AllCols} \cup {RequiredCols}

Budgets == {700 + 40 * k : k \in 0..MaxBudgetStep}

PosLimitsSet == {DefaultPosLimits,
                 ("GKP" :> 2) @@ ("DEF" :> 4) @@ ("MID" :> 5) @@ ("FWD" :> 4) @@ ("SQUAD" :> 15),
                 ("GKP" :> 2) @@ ("DEF" :> 5) @@ ("MID" :> 5) @@ ("FWD" :> 4) @@ ("SQUAD" :> 15)}

SquadInit ==
    /\ candidates \in {[cols |-> c, rows |-> RawRows(seed)] : c \in ColSets, seed \in 0..MaxSeed}
    /\ budget \in Budgets
    /\ pos_limits \in PosLimitsSet
    /\ club_limit \in 1..DefaultClubCap
    /\ reliability_weight \in {3 * k : k \in 0..MaxWeight}
    /\ solver_time_limit \in {None, [seconds |-> 1]}
    /\ solver_time_limit # None =>
          (budget = 740 /\ pos_limits = DefaultPosLimits /\ reliability_weight = 3)
    /\ candidates.cols # AllCols =>
          (budget = 740 /\ pos_limits = DefaultPosLimits /\ reliability_weight = 3
           /\ club_limit = DefaultClubCap /\ solver_time_limit = None)
    /\ result = None
    /\ pc = "call"
    /\ squad = << >> /\ preds = << >> /\ target_gw = 0 /\ mins = DefaultMins /\ lineup = None
    /\ market = << >> /\ gw_list = << >> /\ start_bank = 0 /\ topK_per_pos = 0
    /\ cur_squad = << >> /\ bank = 0 /\ records = << >>

PickInitialSquad ==
    /\ pc = "call"
    /\ \E r \in pick_initial_squad(candidates, budget, pos_limits, club_limit,
                                   reliability_weight, solver_time_limit) :
          /\ result' = r
          /\ pc' = IF Raised(r) THEN "raised" ELSE "returned"
    /\ UNCHANGED << candidates, budget, pos_limits, club_limit, reliability_weight,
                    solver_time_limit, squad, preds, target_gw, mins, lineup, plannerVars2 >>

SquadNext == PickInitialSquad

SpecSquad == SquadInit /\ [][SquadNext]_vars

-----------------------------------------------------------------------------
(* Properties of the Squad Selector *)

CountPos(rows, pos) == Cardinality({i \in 1..Len(rows) : rows[i].position = pos})
CountClub(rows, t) == Cardinality({i \in 1..Len(rows) : rows[i].team_id = t})
Clubs(rows) == {rows[i].team_id : i \in 1..Len(rows)}

SquadSolved == pc = "returned" /\ result.status = "Optimal"

\* C1: every squad pick_initial_squad returns with status Optimal has exactly
\* 15 assets, per-position counts equal to the configured quotas, no club
\* above the club cap, and a total price of at most the budget.
C1_SolvedSquadMeetsConstraints ==
    SquadSolved =>
        /\ Len(result.selected) = SquadSize
        /\ \A p \in Positions : CountPos(result.selected, p) = pos_limits[p]
        /\ \A t \in Clubs(result.selected) : CountClub(result.selected, t) <= club_limit
        /\ TotalCost(result.selected) <= budget

\* an optimal squad under non-default quotas and a cap of 2 that some club
\* reaches, with less than the price of the cheapest asset left unspent
C1_Witness ==
    /\ SquadSolved
    /\ pos_limits # DefaultPosLimits
    /\ club_limit = 2
    /\ \E t \in Clubs(result.selected) : CountClub(result.selected, t) = club_limit
    /\ budget - TotalCost(result.selected) < MinCost

-----------------------------------------------------------------------------
(* Properties of the Lineup Selector *)

LineupSolved == pc = "returned" /\ lineup.status = "Optimal"

\* C2: every lineup pick_starting_xi returns with status Optimal has exactly
\* 11 starters, exactly one of them a goalkeeper, and at least min_def
\* defenders, min_mid midfielders and min_fwd forwards.
C2_SolvedLineupMeetsConstraints ==
    LineupSolved =>
        /\ Len(lineup.xi) = XISize
        /\ CountPos(lineup.xi, "GKP") = 1
        /\ CountPos(lineup.xi, "DEF") >= mins.min_def
        /\ CountPos(lineup.xi, "MID") >= mins.min_mid
        /\ CountPos(lineup.xi, "FWD") >= mins.min_fwd

\* an optimal lineup under the default minimums in which the defender
\* minimum is binding and the benched goalkeeper is projected above a starter
C2_Witness ==
    /\ LineupSolved
    /\ mins = DefaultMins
    /\ Len(squad) = SquadSize
    /\ CountPos(lineup.xi, "DEF") = mins.min_def
    /\ Len(lineup.bench_gk) = 1
    /\ \E k \in 1..Len(lineup.xi) : lineup.xi[k].xpts_gw < lineup.bench_gk[1].xpts_gw

\* The optimum by position agrees with the optimum over the whole constraint
\* set of the MILP, for every squad and projection table of SpecXI.
XIOptimumAgrees ==
    (LineupSolved /\ solver_time_limit = None) =>
        lineup.objective = XIOptimum(MergeXpts(squad, PredsOfGw(preds, target_gw)), mins)

-----------------------------------------------------------------------------
(* Properties of the Transfer Planner *)

\* a period is about to be decided; every step from such a state is PlanPeriod
Deciding == pc = "loop" /\ Len(records) < Len(gw_list)
ThisGw == gw_list[Len(records) + 1]
\* the step appended a decision (no pick_starting_xi call raised)
Decided == Deciding /\ pc' = "loop"
Dec == records'[Len(records')]

IsSwap(d) == d.action # "HOLD"

\* the Lineup Selector objective of a squad for a period: the optimum over
\* the whole constraint set of the lineup MILP
LineupObjective(sq, gw) ==
    LET pool == MergeXpts(sq, PredsOfGw(preds, gw))
        xpts == XptsCol(pool)
    IN Optimum(XIFeasible(pool, DefaultMins), LAMBDA S : XIValue(xpts, S))

CapOk(sq, cap) == \A t \in Clubs(sq) : CountClub(sq, t) <= cap

\* market row j comes before market row k among the candidates of a position
CandBefore(mg, j, k) ==
    \/ mg[j].xpts_gw > mg[k].xpts_gw
    \/ mg[j].xpts_gw = mg[k].xpts_gw /\ j < k

\* market row k is one of the topK rows of its position by xpts_gw
InPrunedMarket(mg, k, topK) ==
    Cardinality({j \in 1..Len(mg) : mg[j].position = mg[k].position /\ CandBefore(mg, j, k)})
        < topK

\* swap s = <<squad row, market row>> is feasible but for its price
SwapAllowed(sq, mg, topK, s) ==
    /\ mg[s[2]].position = sq[s[1]].position
    /\ \A i \in 1..Len(sq) : sq[i].player_id # mg[s[2]].player_id
    /\ InPrunedMarket(mg, s[2], topK)
    /\ CapOk(ApplyTransfer(sq, s[1], mg[s[2]]), DefaultClubCap)

SwapPairs(sq, mg) == (1..Len(sq)) \X (1..Len(mg))

\* the feasible swaps of a period decided from squad sq and bank bnk
FeasibleSwapsOf(sq, bnk, gw) ==
    LET mg == MarketGw(market, preds, gw)
    IN {s \in SwapPairs(sq, mg) :
           /\ SwapAllowed(sq, mg, topK_per_pos, s)
           /\ mg[s[2]].now_cost <= bnk + sq[s[1]].now_cost}

SwapGainOf(sq, gw, s) ==
    LET mg == MarketGw(market, preds, gw)
    IN XIObjective(ApplyTransfer(sq, s[1], mg[s[2]]), preds, gw).objective
       - XIObjective(sq, preds, gw).objective

\* swap s is considered before swap c: squad rows in squad order, then
\* candidates in pruned-market order
EarlierIn(gw, s, c) ==
    LET mg == MarketGw(market, preds, gw)
    IN s[1] < c[1] \/ (s[1] = c[1] /\ s[2] # c[2] /\ CandBefore(mg, s[2], c[2]))

\* the feasible swaps a decision names (none for a HOLD)
CommittedOf(sq, bnk, gw, d) ==
    LET mg == MarketGw(market, preds, gw)
    IN IF ~IsSwap(d) THEN {}
       ELSE {s \in FeasibleSwapsOf(sq, bnk, gw) : /\ sq[s[1]].player_id = d.sell_id
                                                 /\ mg[s[2]].player_id = d.buy_id}

\* the same for the period about to be decided
FeasibleSwaps == FeasibleSwapsOf(cur_squad, bank, ThisGw)
SwapGain(s) == SwapGainOf(cur_squad, ThisGw, s)
Earlier(s, c) == EarlierIn(ThisGw, s, c)
Committed(d) == CommittedOf(cur_squad, bank, ThisGw, d)

\* the allowed swaps priced delta above bank + sell price
PricedAt(delta) ==
    LET mg == MarketGw(market, preds, ThisGw)
    IN {s \in SwapPairs(cur_squad, mg) :
           /\ SwapAllowed(cur_squad, mg, topK_per_pos, s)
           /\ mg[s[2]].now_cost = bank + cur_squad[s[1]].now_cost + delta}

\* decision d sells the squad row and buys the market row of swap s
Names(d, s) ==
    IF ~IsSwap(d) THEN FALSE
    ELSE /\ cur_squad[s[1]].player_id = d.sell_id
         /\ MarketGw(market, preds, ThisGw)[s[2]].player_id = d.buy_id

SomeSwap == \E k \in 1..Len(records) : IsSwap(records[k])
SomeHold == \E k \in 1..Len(records) : ~IsSwap(records[k])

\* C3: after any sequence of periods the carried squad has 15 assets and the
\* per-position counts of the initial squad, and a period replaces at most
\* one squad entry.
C3_SizeAndCategoriesKept ==
    [][Deciding =>
         /\ Len(cur_squad') = SquadSize
         /\ \A p \in Positions : CountPos(cur_squad', p) = CountPos(squad, p)
         /\ Cardinality({i \in 1..SquadSize : cur_squad'[i] # cur_squad[i]}) <= 1]_vars

\* two swaps committed in one plan, the second squad differing from the
\* initial one in two entries
C3_Witness ==
    /\ pc = "done"
    /\ Cardinality({k \in 1..Len(records) : IsSwap(records[k])}) >= 2
    /\ Cardinality({i \in 1..SquadSize : cur_squad[i] # squad[i]}) = 2

\* C4: after any committed swap no club has more assets in the squad than the
\* configured club cap, whatever cap the initial squad satisfies.
C4_ConfiguredCapKept == CapOk(cur_squad, club_limit)

\* C5: the bank carried out of a period is the bank carried in plus the sell
\* price minus the buy price on a swap and the bank carried in on HOLD, and
\* bank_after records it.
C5_BankConserved ==
    [][Decided =>
         /\ Dec.bank_after = bank'
         /\ IF IsSwap(Dec) THEN bank' = bank + Dec.sell_price - Dec.buy_price
                           ELSE bank' = bank]_vars

\* a plan holding both a HOLD and a swap that changed the bank
C5_Witness ==
    /\ SomeHold
    /\ \E k \in 1..Len(records) :
          IsSwap(records[k]) /\ records[k].sell_price # records[k].buy_price
    /\ bank # start_bank

\* C6 as stated: at every period boundary the total price of the carried
\* squad is at most the budget under which the initial squad was selected.
C6_WithinBudget == TotalCost(cur_squad) <= budget

\* C6 amended: the total price of the carried squad is at most the initial
\* squad's total price plus the starting bank, hence at most the budget when
\* the starting bank does not exceed what the initial squad left unspent.
C6_WithinInitialPricePlusBank ==
    /\ TotalCost(cur_squad) <= TotalCost(squad) + start_bank
    /\ start_bank <= budget - TotalCost(squad) => TotalCost(cur_squad) <= budget

\* a squad that swaps made dearer than the initial one and that spends the
\* budget to the last unit, from a starting bank within the unspent budget
C6_Witness ==
    /\ SomeSwap
    /\ start_bank <= budget - TotalCost(squad)
    /\ TotalCost(cur_squad) > TotalCost(squad)
    /\ TotalCost(cur_squad) = budget

\* C7: for every non-HOLD decision gain = new_xi_xpts - base_xi_xpts, with
\* base_xi_xpts the lineup objective of the squad before the swap and
\* new_xi_xpts that of the squad after it, for the same period, and gain is
\* strictly above the tolerance.
C7_GainConsistent ==
    [][(Decided /\ IsSwap(Dec)) =>
         /\ Dec.gain = Dec.new_xi_xpts - Dec.base_xi_xpts
         /\ Dec.base_xi_xpts = LineupObjective(cur_squad, ThisGw)
         /\ Dec.new_xi_xpts = LineupObjective(cur_squad', ThisGw)
         /\ Dec.gain > Eps]_vars

\* a swap committed for the smallest gain above the tolerance
C7_Witness == \E k \in 1..Len(records) : IsSwap(records[k]) /\ records[k].gain = Eps + 1

\* C8: a candidate priced exactly at bank + sell price is treated as
\* affordable (it keeps a period from being a HOLD when its gain is above
\* the tolerance, and the committed gain is within the tolerance of its
\* gain), and nothing priced above bank + sell price is bought.
C8_AffordabilityBoundary ==
    [][Decided =>
         /\ IsSwap(Dec) => Dec.buy_price <= bank + Dec.sell_price
         /\ \A s \in PricedAt(0) :
               SwapGain(s) > Eps => (IsSwap(Dec) /\ Dec.gain + Eps >= SwapGain(s))
         /\ \A s \in PricedAt(1) : ~Names(Dec, s)]_vars

\* a swap bought at exactly bank + sell price, for more than the sell price
C8_Witness ==
    \E k \in 1..Len(records) :
        /\ IsSwap(records[k])
        /\ records[k].bank_after = 0
        /\ records[k].buy_price > records[k].sell_price

\* no (player, gw) pair of the period has more than one projection row
SingleRows(gw) ==
    LET p == PredsOfGw(preds, gw)
    IN \A j, k \in 1..Len(p) : p[j].player_id = p[k].player_id => j = k

\* C9: a period is a HOLD exactly when no feasible swap has a gain above the
\* tolerance; candidates that are unaffordable or break the club limit are
\* passed over and the period is still decided; a HOLD records zero gain and
\* new value = base value and carries the squad and the bank unchanged.
C9_HoldIffNoImprovingSwap ==
    [][Deciding =>
         /\ SingleRows(ThisGw) => pc' = "loop"
         /\ pc' = "loop" =>
               /\ ~IsSwap(Dec) <=> \A s \in FeasibleSwaps : SwapGain(s) <= Eps
               /\ ~IsSwap(Dec) =>
                     /\ Dec.gain = 0
                     /\ Dec.new_xi_xpts = Dec.base_xi_xpts
                     /\ Dec.bank_after = bank
                     /\ cur_squad' = cur_squad
                     /\ bank' = bank]_vars

\* a HOLD (squad and bank are those of the decided period) although a
\* feasible swap gains exactly the tolerance, while one allowed candidate
\* was unaffordable and one affordable candidate broke the club limit
C9_Witness ==
    /\ pc = "loop" /\ records # << >> /\ ~IsSwap(records[Len(records)])
    /\ LET gw == gw_list[Len(records)]
           mg == MarketGw(market, preds, gw)
           gain(s) == XIObjective(ApplyTransfer(cur_squad, s[1], mg[s[2]]), preds, gw).objective
                      - records[Len(records)].base_xi_xpts
           cheap(s) == mg[s[2]].now_cost <= bank + cur_squad[s[1]].now_cost
       IN /\ \E s \in SwapPairs(cur_squad, mg) :
                SwapAllowed(cur_squad, mg, topK_per_pos, s) /\ cheap(s) /\ gain(s) = Eps
          /\ \E s \in SwapPairs(cur_squad, mg) :
                SwapAllowed(cur_squad, mg, topK_per_pos, s) /\ ~cheap(s)
          /\ \E s \in SwapPairs(cur_squad, mg) :
                /\ mg[s[2]].position = cur_squad[s[1]].position
                /\ \A i \in 1..Len(cur_squad) : cur_squad[i].player_id # mg[s[2]].player_id
                /\ InPrunedMarket(mg, s[2], topK_per_pos)
                /\ cheap(s)
                /\ ~CapOk(ApplyTransfer(cur_squad, s[1], mg[s[2]]), DefaultClubCap)

MarketRow(pid) ==
    CHOOSE r \in Range(market) : r.player_id = pid

\* the squad a sequence of decisions leads to from squad sq: each swap
\* replaces, in place, the row of its sold player by the market row of its
\* bought player
RECURSIVE Replay(_, _)
Replay(sq, recs) ==
    IF recs = << >> THEN sq
    ELSE LET d == Head(recs)
             after == IF ~IsSwap(d) THEN sq
                      ELSE [i \in 1..Len(sq) |->
                              IF sq[i].player_id = d.sell_id
                              THEN [c \in DOMAIN sq[i] |->
                                      IF c \in TransferCols THEN MarketRow(d.buy_id)[c]
                                      ELSE sq[i][c]]
                              ELSE sq[i]]
         IN Replay(after, Tail(recs))

\* the bank a sequence of decisions leads to from bank bnk
RECURSIVE BankReplay(_, _)
BankReplay(bnk, recs) ==
    IF recs = << >> THEN bnk
    ELSE LET d == Head(recs)
         IN BankReplay(IF IsSwap(d) THEN bnk + d.sell_price - d.buy_price ELSE bnk,
                       Tail(recs))

\* C11: the plan holds one decision per entry of the period list, in the
\* list's order and never more than the list has; decision k is taken from
\* the squad and bank that decisions 1..k-1 lead to (its base value is the
\* lineup objective of that squad and its bank_after follows from that
\* bank); the carried squad and bank are those the decisions so far lead to,
\* and when the plan returns every entry has its decision.
C11_PeriodsInOrderStateCarried ==
    /\ Len(records) <= Len(gw_list)
    /\ pc = "done" => Len(records) = Len(gw_list)
    /\ cur_squad = Replay(squad, records)
    /\ bank = BankReplay(start_bank, records)
    /\ \A k \in 1..Len(records) :
          /\ records[k].gw = gw_list[k]
          /\ records[k].base_xi_xpts
                = LineupObjective(Replay(squad, SubSeq(records, 1, k - 1)), gw_list[k])
          /\ records[k].bank_after = BankReplay(start_bank, SubSeq(records, 1, k))

\* a returned plan over periods given in descending order whose first
\* decision is a swap and whose second decision starts from a base value
\* and a bank that the initial squad and bank would not give
C11_Witness ==
    /\ pc = "done"
    /\ Len(records) >= 2
    /\ gw_list[1] > gw_list[2]
    /\ IsSwap(records[1])
    /\ records[2].base_xi_xpts # LineupObjective(squad, gw_list[2])
    /\ records[1].bank_after # start_bank

-----------------------------------------------------------------------------
(* Properties of the Lineup Selector's report *)

Returned == pc = "returned"

\* the place of a player in the squad handed to the call
SquadPlace(pid) == CHOOSE i \in 1..Len(squad) : squad[i].player_id = pid

\* the starters of the returned lineup other than player pid
OtherStarters(pid) == {r \in Range(lineup.xi) : r.player_id # pid}

\* C12: in every returned lineup captain and vice are two distinct starters,
\* the captain's value is at least the vice's and the vice's at least every
\* other starter's, and among starters of equal value the one earlier in the
\* squad comes first.
C12_CaptainViceStableOrder ==
    Returned =>
        LET cap == lineup.captain
            vice == lineup.vice
            starters == {r.player_id : r \in Range(lineup.xi)}
        IN /\ cap.player_id \in starters /\ vice.player_id \in starters
           /\ cap.player_id # vice.player_id
           /\ cap.xpts_gw >= vice.xpts_gw
           /\ \A r \in OtherStarters(cap.player_id) : vice.xpts_gw >= r.xpts_gw
           /\ \A r \in Range(lineup.xi) :
                 r.xpts_gw = cap.xpts_gw => SquadPlace(cap.player_id) <= SquadPlace(r.player_id)
           /\ \A r \in OtherStarters(cap.player_id) :
                 r.xpts_gw = vice.xpts_gw => SquadPlace(vice.player_id) <= SquadPlace(r.player_id)

\* C12 without the tie-break: what holds of every lineup returned for a
\* squad of 15 distinct players
CaptainViceByValue ==
    (Returned /\ Len(squad) = SquadSize) =>
        LET cap == lineup.captain
            vice == lineup.vice
            starters == {r.player_id : r \in Range(lineup.xi)}
        IN /\ cap.player_id \in starters /\ vice.player_id \in starters
           /\ cap.player_id # vice.player_id
           /\ cap.xpts_gw >= vice.xpts_gw
           /\ \A r \in OtherStarters(cap.player_id) : vice.xpts_gw >= r.xpts_gw

\* the squad rows that are not starters of the returned lineup
NonStarters ==
    LET starters == {r.player_id : r \in Range(lineup.xi)}
    IN {r \in Range(squad) : r.player_id \notin starters}

\* the returned bench is the structural one: bench_gk is the one goalkeeper
\* that is not a starter, and bench_outfield holds the other non-starters
\* in non-increasing order of value
StructuralBench ==
    LET gks == {r \in NonStarters : r.position = "GKP"}
        out == {r \in NonStarters : r.position # "GKP"}
        bo == lineup.bench_outfield
    IN /\ Cardinality(gks) = 1
       /\ Len(lineup.bench_gk) = 1
       /\ \E g \in gks : lineup.bench_gk[1].player_id = g.player_id
       /\ Len(bo) = Cardinality(out)
       /\ {bo[k].player_id : k \in 1..Len(bo)} = {r.player_id : r \in out}
       /\ \A k \in 1..(Len(bo) - 1) : bo[k].xpts_gw >= bo[k + 1].xpts_gw

TwoGoalkeepers == Len(squad) = SquadSize /\ CountPos(squad, "GKP") = 2

\* C13: for a squad with two goalkeepers the returned bench goalkeeper is
\* exactly the goalkeeper that is not a starter, whatever its value, and
\* the outfield bench is the remaining non-starters in non-increasing order
\* of value.
C13_BenchIsStructural == (Returned /\ TwoGoalkeepers) => StructuralBench

\* C13 for the lineups that come from the constraint set (a proven optimum
\* or an incumbent), which excludes what is returned on an infeasible model
BenchOfConstrainedLineup ==
    (Returned /\ TwoGoalkeepers /\ lineup.status # "Infeasible") => StructuralBench

\* an optimal lineup whose bench goalkeeper has the lowest value of all 15
LowestOnBench ==
    /\ Returned /\ TwoGoalkeepers /\ lineup.status = "Optimal"
    /\ \A r \in Range(lineup.xi) \cup Range(lineup.bench_outfield) :
          lineup.bench_gk[1].xpts_gw <= r.xpts_gw

\* the call is over: it returned a lineup or raised
CallOver == pc \in {"returned", "raised"}

\* the squad handed to the call is not 15 assets of the four categories
InvalidSquad ==
    \/ Len(squad) # SquadSize
    \/ \E i \in 1..Len(squad) : squad[i].position \notin Positions

\* C14: the Lineup Selector fails the call, returning no lineup, when the
\* squad does not have exactly 15 assets or holds a category outside
\* {GKP, DEF, MID, FWD}.
C14_InvalidSquadFails ==
    (CallOver /\ InvalidSquad) => (pc = "raised" /\ lineup = ValueError)

\* C14 for projection tables with at most one row per (asset, period)
InvalidSquadFailsOnSingleRows ==
    (CallOver /\ InvalidSquad /\ SingleRows(target_gw)) => (pc = "raised" /\ lineup = ValueError)

\* a category has fewer assets in the squad than the lineup needs of it
MinimumsExceedSquad ==
    \/ CountPos(squad, "GKP") < 1
    \/ CountPos(squad, "DEF") < mins.min_def
    \/ CountPos(squad, "MID") < mins.min_mid
    \/ CountPos(squad, "FWD") < mins.min_fwd

\* C15: when the category minimums exceed the starters available in a
\* 15-asset squad, the Lineup Selector fails the call instead of returning
\* a lineup, captain, vice and bench.
C15_ExcessMinimumsFail ==
    (CallOver /\ ~InvalidSquad /\ MinimumsExceedSquad) => pc = "raised"

\* C16: the Lineup Selector only reads the squad: when pick_starting_xi
\* returns or fails, the squad table the caller passed holds exactly the
\* values it held before the call.
C16_SquadNotMutated == [][pc = "call" => squad' = squad]_vars

\* C16 for squads whose player_id column holds numbers
NumericSquadNotMutated ==
    [][(pc = "call" /\ \A i \in 1..Len(squad) : ~IsText(squad[i].player_id))
          => squad' = squad]_vars

-----------------------------------------------------------------------------
(* The Lineup Selector called on its own, or a transfer plan *)

InitEither == XIInit \/ (PlanInit /\ start_bank = 0)
NextEither == XINext \/ Next
SpecEither == InitEither /\ [][NextEither]_vars

\* the projection table has no row for (pid, gw)
NoRow(pid, gw) ==
    \A k \in 1..Len(preds) : ~(preds[k].player_id = pid /\ preds[k].gw = gw)

\* the period value of a player: that of its projection row, 0 without one
ValueOf(pid, gw) ==
    IF NoRow(pid, gw) THEN 0
    ELSE (CHOOSE r \in Range(preds) : r.player_id = pid /\ r.gw = gw).exp_points_scaled

\* the best lineup value of squad sq under ValueOf
ObjectiveOfValues(sq, gw) ==
    LET v == [i \in 1..Len(sq) |-> ValueOf(sq[i].player_id, gw)]
    IN Optimum(XIFeasible(sq, DefaultMins), LAMBDA S : SumOver(v, S, Len(sq)))

\* the lineup cannot meet its minimums from the squad
InfeasibleMins ==
    \/ MinimumsExceedSquad
    \/ 1 + mins.min_def + mins.min_mid + mins.min_fwd > XISize

\* what the Lineup Selector returned values every asset by ValueOf, and it
\* raised only for an invalid squad, a doubled projection row or
\* infeasible minimums
ReportUsesValues ==
    /\ Returned =>
          \A r \in Range(lineup.xi) \cup Range(lineup.bench_gk) \cup Range(lineup.bench_outfield) :
              r.xpts_gw = ValueOf(r.player_id, target_gw)
    /\ pc = "raised" => (InvalidSquad \/ ~SingleRows(target_gw) \/ InfeasibleMins)

\* market row j comes before the market row of player pid among the
\* candidates of its position under ValueOf
ValuedBefore(j, pid, gw) ==
    LET k == CHOOSE i \in 1..Len(market) : market[i].player_id = pid
    IN /\ market[j].position = market[k].position
       /\ \/ ValueOf(market[j].player_id, gw) > ValueOf(pid, gw)
          \/ ValueOf(market[j].player_id, gw) = ValueOf(pid, gw) /\ j < k

\* C17: an asset of the squad or of the market without a projection row
\* for the period is valued 0 by the Lineup Selector and by the Transfer
\* Planner, and the call does not fail for it: a returned lineup values its
\* 15 assets by ValueOf; a period of a plan is decided whenever no
\* projection row is doubled, its base and new values are the best lineup
\* values under ValueOf, and the asset it buys is among the topK of its
\* position under ValueOf.
C17_MissingProjectionIsZero ==
    [][/\ pc = "call" => ReportUsesValues'
       /\ Deciding =>
             /\ SingleRows(ThisGw) => pc' = "loop"
             /\ pc' = "loop" =>
                   /\ Dec.base_xi_xpts = ObjectiveOfValues(cur_squad, ThisGw)
                   /\ Dec.new_xi_xpts = ObjectiveOfValues(cur_squad', ThisGw)
                   /\ IsSwap(Dec) =>
                         Cardinality({j \in 1..Len(market) : ValuedBefore(j, Dec.buy_id, ThisGw)})
                             < topK_per_pos]_vars

\* an optimal lineup one of whose starters has no projection row for the
\* period and starts on value 0
C17_Witness ==
    /\ Returned /\ lineup.status = "Optimal"
    /\ \E r \in Range(lineup.xi) : NoRow(r.player_id, target_gw) /\ r.xpts_gw = 0

\* a decided period of a plan in which an asset of the squad and an unowned
\* asset of the market have no projection row
MissingInPlan ==
    /\ pc = "loop" /\ records # << >>
    /\ LET gw == gw_list[Len(records)]
       IN /\ \E i \in 1..Len(squad) : NoRow(squad[i].player_id, gw)
          /\ \E j \in (Len(squad) + 1)..Len(market) : NoRow(market[j].player_id, gw)

-----------------------------------------------------------------------------
(* Properties of the Squad Selector's failure modes *)

SquadCallOver == pc \in {"returned", "raised"}

\* the pool the solver is given, when the builder accepts the raw table
SolverPool == ScoredPool(ValidatePool(candidates).pool, reliability_weight)

\* the constraint set of the call has no satisfying assignment
NoSquadExists ==
    /\ ~Raised(ValidatePool(candidates))
    /\ SquadFeasible(SolverPool, budget, pos_limits, club_limit) = {}

\* C18: when the constraint set has no satisfying assignment,
\* pick_initial_squad surfaces an error and returns no squad.
C18_InfeasibleRaises == (SquadCallOver /\ NoSquadExists) => pc = "raised"

\* the solve was stopped on its time bound and the squad it returned scores
\* below another squad that meets the constraints
UnprovenIncumbent ==
    /\ pc = "returned"
    /\ solver_time_limit # None
    /\ Len(result.selected) = pos_limits["SQUAD"]
    /\ TotalCost(result.selected) <= budget
    /\ LET pool == SolverPool
       IN \E S \in SquadFeasible(pool, budget, pos_limits, club_limit) :
              ScoreOf(pool, S) > result.totals.score

\* C19: a result that is the best-found incumbent of a solve stopped on its
\* time bound, not a proven optimum, carries a status other than the one
\* reported for a proven optimum.
C19_IncumbentStatusDiffers ==
    ~(pc = "returned" /\ result.status = "Optimal" /\ UnprovenIncumbent)

\* a required column or both identifier columns are absent
SchemaBroken ==
    \/ RequiredCols \ candidates.cols # {}
    \/ candidates.cols \cap {"player_id", "player_key"} = {}

\* C20: _validate_pool fails with an error, producing no pool, whenever a
\* required field is absent from the raw table or neither identifier column
\* is present.
C20_SchemaErrorRaised ==
    (SquadCallOver /\ SchemaBroken) => (pc = "raised" /\ result = ValueError)

\* a raw table with both identifiers that lacks only the reliability column
\* has been refused
C20_Witness ==
    /\ pc = "raised" /\ result = ValueError
    /\ candidates.cols = AllCols \ {"mean_reliability"}

\* a raw table with one identifier column is accepted and solved
OneIdentifierAccepted ==
    /\ pc = "returned" /\ result.status = "Optimal"
    /\ "player_id" \notin candidates.cols

-----------------------------------------------------------------------------
(* Properties of the CandidatePool Builder *)

\* the pool the builder returns for the raw table of the call
BuiltPool == ValidatePool(candidates).pool

PoolBuilt == pc = "returned" /\ ~Raised(ValidatePool(candidates))

BothIdentifiers == {"player_id", "player_key"} \subseteq candidates.cols

UidFromPlayerIdFirst ==
    PoolBuilt =>
        LET pool == BuiltPool
        IN \A i \in 1..Len(pool) :
               pool[i].uid = IF "player_id" \in candidates.cols
                             THEN pool[i].player_id ELSE pool[i].player_key

-----------------------------------------------------------------------------
(* _validate_pool, applied on its own to raw tables *)

\* rows a raw table may carry beside the market's assets: repeated uids
\* (cheaper at equal value, pricier at higher value, equal in both, value
\* unparseable), rows the filters reject that repeat a uid with the highest
\* value (category outside the four, price under the band, price
\* unparseable), rows on and just outside the ends of the price band, and
\* two assets whose player_id is missing
ExtraRows(seed) ==
    << [Candidate(3, seed) EXCEPT !.now_cost = 48],
       [Candidate(8, seed) EXCEPT !.horizon_xpts = 11, !.now_cost = 82],
       [Candidate(4, seed) EXCEPT !.web_name = 44],
       [Candidate(5, seed) EXCEPT !.horizon_xpts = NaN, !.now_cost = 40],
       [Candidate(9, seed) EXCEPT !.position = "AM", !.horizon_xpts = 12],
       [Candidate(13, seed) EXCEPT !.now_cost = 30, !.horizon_xpts = 12],
       [Candidate(14, seed) EXCEPT !.now_cost = NaN, !.horizon_xpts = 12],
       [Candidate(6, seed) EXCEPT !.player_id = 40, !.player_key = 140, !.now_cost = MinCost],
       [Candidate(7, seed) EXCEPT !.player_id = 41, !.player_key = 141, !.now_cost = MinCost - 1],
       [Candidate(10, seed) EXCEPT !.player_id = 42, !.player_key = 142, !.now_cost = MaxCost],
       [Candidate(11, seed) EXCEPT !.player_id = 43, !.player_key = 143, !.now_cost = MaxCost + 1],
       [Candidate(16, seed) EXCEPT !.player_id = NaN],
       [Candidate(17, seed) EXCEPT !.player_id = NaN] >>

\* the subsets of extra rows tried: none, each one alone, each one left
\* out, all
ExtraChoices(seed) ==
    LET all == 1..Len(ExtraRows(seed))
    IN {{}, all} \cup {{e} : e \in all} \cup {all \ {e} : e \in all}

RawTable(seed, E) == [i \in 1..NAssets |-> Candidate(i, seed)] \o Rows(ExtraRows(seed), E)

PoolInit ==
    /\ \E seed \in 0..MaxSeed : \E E \in ExtraChoices(seed) : \E c \in ColSets :
          /\ c # AllCols => E = 1..Len(ExtraRows(seed))
          /\ candidates = [cols |-> c, rows |-> RawTable(seed, E)]
    /\ budget = 1000 /\ pos_limits = DefaultPosLimits /\ club_limit = DefaultClubCap
    /\ reliability_weight = 0 /\ solver_time_limit = None
    /\ result = None
    /\ pc = "build"
    /\ squad = << >> /\ preds = << >> /\ target_gw = 0 /\ mins = DefaultMins /\ lineup = None
    /\ market = << >> /\ gw_list = << >> /\ start_bank = 0 /\ topK_per_pos = 0
    /\ cur_squad = << >> /\ bank = 0 /\ records = << >>

\* pool = _validate_pool(candidates)
BuildPool ==
    /\ pc = "build"
    /\ result' = ValidatePool(candidates)
    /\ pc' = IF Raised(result') THEN "raised" ELSE "built"
    /\ UNCHANGED << candidates, budget, pos_limits, club_limit, reliability_weight,
                    solver_time_limit, squad, preds, target_gw, mins, lineup, plannerVars2 >>

PoolNext == BuildPool

SpecPool == PoolInit /\ [][PoolNext]_vars

\* the cells of raw row i as the builder reads them
RawCost(i) == ToNumericFill0(candidates.rows[i].now_cost)
RawValue(i) == ToNumericFill0(candidates.rows[i].horizon_xpts)
RawUid(i) == Uid(candidates, candidates.rows[i])

\* the raw rows passing the category and price filters
Passing ==
    {i \in 1..Len(candidates.rows) :
        /\ candidates.rows[i].position \in Positions
        /\ RawCost(i) >= MinCost /\ RawCost(i) <= MaxCost}

SameUid(i) == {j \in Passing : RawUid(j) = RawUid(i)}

\* the pool rows carrying the uid of raw row i
KeptFor(i) == {k \in 1..Len(result.pool) : result.pool[k].uid = RawUid(i)}

\* C22: for every uid occurring among the rows that pass the category and
\* price filters the pool keeps exactly one row, one of highest horizon
\* value among that uid's rows and, among those, of lowest price.
C22_DedupKeepsBestCheapest ==
    pc = "built" =>
        \A i \in Passing :
            LET best == MaxOf({RawValue(j) : j \in SameUid(i)})
                top == {j \in SameUid(i) : RawValue(j) = best}
            IN /\ Cardinality(KeptFor(i)) = 1
               /\ \A k \in KeptFor(i) :
                     /\ result.pool[k].horizon_xpts = best
                     /\ \A j \in top : result.pool[k].now_cost <= RawCost(j)
                     /\ \E j \in top : /\ result.pool[k].now_cost = RawCost(j)
                                       /\ result.pool[k].web_name = candidates.rows[j].web_name

\* a pool built from a table where one uid comes twice at equal value with
\* the cheaper row second, another with its pricier row of higher value,
\* and a third has its highest-valued row rejected by the price filter
C22_Witness ==
    /\ pc = "built"
    /\ \E i, j \in Passing : /\ i < j /\ RawUid(i) = RawUid(j)
                             /\ RawValue(i) = RawValue(j) /\ RawCost(j) < RawCost(i)
    /\ \E i, j \in Passing : /\ RawUid(i) = RawUid(j)
                             /\ RawValue(i) < RawValue(j) /\ RawCost(i) < RawCost(j)
    /\ \E i \in Passing : \E j \in (1..Len(candidates.rows)) \ Passing :
          RawUid(i) = RawUid(j) /\ RawValue(j) > RawValue(i)

\* C23: every row of the returned pool has one of the four categories, a
\* price within 3.5 .. 15.5 inclusive (an unparseable price is 0 and is
\* rejected), and a uid no other row has.
C23_PoolRowsValid ==
    pc = "built" =>
        \A k \in 1..Len(result.pool) :
            /\ result.pool[k].position \in {"GKP", "DEF", "MID", "FWD"}
            /\ result.pool[k].now_cost >= 35 /\ result.pool[k].now_cost <= 155
            /\ result.pool[k].now_cost # NaN
            /\ \A l \in 1..Len(result.pool) : result.pool[l].uid = result.pool[k].uid => l = k

\* a pool built from a table with a row of each rejected kind and a repeated
\* uid, holding rows priced at both ends of the band
C23_Witness ==
    /\ pc = "built"
    /\ \E i \in 1..Len(candidates.rows) : candidates.rows[i].position \notin Positions
    /\ \E i \in 1..Len(candidates.rows) : candidates.rows[i].now_cost = NaN
    /\ \E i \in 1..Len(candidates.rows) : candidates.rows[i].now_cost = MinCost - 1
    /\ \E i \in 1..Len(candidates.rows) : candidates.rows[i].now_cost = MaxCost + 1
    /\ \E i, j \in Passing : i # j /\ RawUid(i) = RawUid(j)
    /\ \E k \in 1..Len(result.pool) : result.pool[k].now_cost = MinCost
    /\ \E k \in 1..Len(result.pool) : result.pool[k].now_cost = MaxCost

-----------------------------------------------------------------------------
(* Budget monotonicity of the Squad Selector *)

\* the best objective over the squads meeting the constraints of the call
\* with its budget replaced by b; None when there is no such squad
OptimumAt(b) ==
    LET pool == SolverPool
        F == SquadFeasible(pool, b, pos_limits, club_limit)
    IN IF F = {} THEN None ELSE [objective |-> Optimum(F, LAMBDA S : ScoreOf(pool, S))]

\* the quotas under which the raw tables have a squad
FeasiblePosLimits == {l \in PosLimitsSet :
                        l["GKP"] + l["DEF"] + l["MID"] + l["FWD"] = l["SQUAD"]}

\* a call run to the end, then the same call with a larger budget (at the
\* same budget the second call solves the same problem)
BudgetInit ==
    /\ candidates \in {[cols |-> AllCols, rows |-> RawRows(seed)] : seed \in 0..MaxSeed}
    /\ budget \in Budgets
    /\ pos_limits \in FeasiblePosLimits
    /\ club_limit = DefaultClubCap
    /\ reliability_weight \in {3 * k : k \in 0..MaxWeight}
    /\ solver_time_limit = None
    /\ result = None
    /\ pc = "call"
    /\ squad = << >> /\ preds = << >> /\ target_gw = 0 /\ mins = DefaultMins /\ lineup = None
    /\ market = << >> /\ gw_list = << >> /\ start_bank = 0 /\ topK_per_pos = 0
    /\ cur_squad = << >> /\ bank = 0 /\ records = << >>

\* pick_initial_squad again, every argument but the budget as before
RaiseBudget ==
    /\ pc = "returned"
    /\ \E b2 \in {b \in Budgets : b > budget} :
          /\ budget' = b2
          /\ \E r \in pick_initial_squad(candidates, b2, pos_limits, club_limit,
                                         reliability_weight, solver_time_limit) :
                /\ result' = r
                /\ pc' = IF Raised(r) THEN "raised" ELSE "recalled"
    /\ UNCHANGED << candidates, pos_limits, club_limit, reliability_weight,
                    solver_time_limit, squad, preds, target_gw, mins, lineup, plannerVars2 >>

BudgetNext == PickInitialSquad \/ RaiseBudget

SpecBudget == BudgetInit /\ [][BudgetNext]_vars

\* C24: for a fixed pool, quotas, club cap and reliability weight and budgets
\* b1 <= b2 with the problem feasible at b1, the optimal objective at b2 is
\* at least the optimal objective at b1: a call solved at b1 and repeated
\* at b2 is solved again, with an objective no smaller.
C24_BudgetMonotone ==
    [][(pc = "returned" /\ pc' # "returned" /\ result.status = "Optimal") =>
          /\ pc' = "recalled" /\ budget' > budget
          /\ result'.status = "Optimal"
          /\ result'.totals.score >= result.totals.score]_vars

\* a repeated call whose optimum a lower, feasible budget does not reach
C24_Witness ==
    /\ pc = "recalled" /\ result.status = "Optimal"
    /\ \E b1 \in {b \in Budgets : b < budget} :
          LET o1 == OptimumAt(b1)
          IN o1 # None /\ result.totals.score > o1.objective

-----------------------------------------------------------------------------
(* Properties of the Transfer Planner's search *)

PlayerIds(sq) == {sq[i].player_id : i \in 1..Len(sq)}

\* C25: an asset bought in a period is among the top-N assets of its
\* category by the period's value, the top-N taken over the whole market
\* with N = topK_per_pos; it has the category of the asset sold and was not
\* in the squad at the start of the period.  With N = 0 every period is a
\* HOLD.
C25_BuysWithinBreadth ==
    [][Decided =>
          /\ topK_per_pos = 0 => ~IsSwap(Dec)
          /\ IsSwap(Dec) =>
                /\ Cardinality({j \in 1..Len(market) : ValuedBefore(j, Dec.buy_id, ThisGw)})
                      < topK_per_pos
                /\ Dec.buy_pos = Dec.sell_pos
                /\ MarketRow(Dec.buy_id).position = Dec.sell_pos
                /\ Dec.sell_id \in PlayerIds(cur_squad)
                /\ Dec.buy_id \notin PlayerIds(cur_squad)
                /\ Dec.buy_id \in PlayerIds(cur_squad')]_vars

\* a plan whose first decision buys an asset that an owned asset of the
\* same category comes before in the market's order of value
C25_Witness ==
    /\ pc = "done" /\ Len(records) >= 1
    /\ IsSwap(records[1])
    /\ \E j \in 1..Len(market) :
          /\ ValuedBefore(j, records[1].buy_id, gw_list[1])
          /\ market[j].player_id \in PlayerIds(squad)

\* a returned plan with breadth 0: every period a HOLD
HoldsAtZeroBreadth ==
    /\ pc = "done" /\ topK_per_pos = 0 /\ Len(records) = MaxGw
    /\ \A k \in 1..Len(records) : ~IsSwap(records[k])

\* C26: with a starting bank >= 0 the bank is >= 0 at every period boundary
\* of a plan: the carried bank and the bank_after of every decision.
C26_BankNeverNegative ==
    start_bank >= 0 =>
        /\ bank >= 0
        /\ \A k \in 1..Len(records) : records[k].bank_after >= 0

\* a returned plan with a swap that spent the whole bank on a pricier asset
C26_Witness ==
    /\ pc = "done" /\ start_bank > 0
    /\ \E k \in 1..Len(records) :
          /\ IsSwap(records[k])
          /\ records[k].buy_price > records[k].sell_price
          /\ records[k].bank_after = 0

Distinct(sq) == \A i, j \in 1..Len(sq) : sq[i].player_id = sq[j].player_id => i = j

\* C27: from an initial squad of pairwise distinct asset ids, the asset ids
\* of the carried squad are pairwise distinct after any sequence of periods.
C27_SquadIdsDistinct ==
    (pc \in {"loop", "done", "raised"} /\ Distinct(squad)) => Distinct(cur_squad)

\* a returned plan that sold an asset in one period and bought it back in a
\* later one
C27_Witness ==
    /\ pc = "done" /\ Distinct(squad)
    /\ \E j, k \in 1..Len(records) :
          /\ j < k /\ IsSwap(records[j]) /\ IsSwap(records[k])
          /\ records[k].buy_id = records[j].sell_id

\* C28: after a committed swap the replaced entry of the squad describes
\* the bought asset in every field the squad table carries; here uid, which
\* a squad saved by the Squad Selector carries beside the six market
\* columns and which equals player_id on every row of the initial squad.
C28_ReplacedEntryDescribesBought ==
    [][(Decided /\ IsSwap(Dec)) =>
          \A i \in 1..Len(cur_squad') :
              cur_squad'[i].player_id = Dec.buy_id =>
                  /\ cur_squad'[i].uid = Dec.buy_id
                  /\ cur_squad'[i].uid # Dec.sell_id]_vars

\* the six columns _apply_transfer writes describe the bought asset
SixColumnsDescribeBought ==
    [][(Decided /\ IsSwap(Dec)) =>
          \A i \in 1..Len(cur_squad') :
              cur_squad'[i].player_id = Dec.buy_id =>
                  \A c \in TransferCols : cur_squad'[i][c] = MarketRow(Dec.buy_id)[c]]_vars

-----------------------------------------------------------------------------
(* Properties of the Lineup Selector's partition of the squad *)

IdsOf(rows) == {rows[i].player_id : i \in 1..Len(rows)}

\* C29: for every 15-asset squad the Lineup Selector accepts and solves, the
\* starters, the bench goalkeeper and the outfield bench are pairwise
\* disjoint and together exactly the 15 squad assets; the bench goalkeeper
\* is never a starter.
C29_LineupPartitionsSquad ==
    (LineupSolved /\ Len(squad) = SquadSize) =>
        /\ IdsOf(lineup.xi) \cap IdsOf(lineup.bench_gk) = {}
        /\ IdsOf(lineup.xi) \cap IdsOf(lineup.bench_outfield) = {}
        /\ IdsOf(lineup.bench_gk) \cap IdsOf(lineup.bench_outfield) = {}
        /\ IdsOf(lineup.xi) \cup IdsOf(lineup.bench_gk) \cup IdsOf(lineup.bench_outfield)
              = IdsOf(squad)
        /\ Len(lineup.xi) + Len(lineup.bench_gk) + Len(lineup.bench_outfield) = SquadSize

\* the partition holds for squads with two goalkeepers
TwoGoalkeepersPartitioned == TwoGoalkeepers => C29_LineupPartitionsSquad

\* a solved lineup of a squad with one goalkeeper, who starts and is also
\* returned as the bench goalkeeper
OneGoalkeeperOnBenchAndStarting ==
    /\ LineupSolved /\ Len(squad) = SquadSize /\ CountPos(squad, "GKP") = 1
    /\ IdsOf(lineup.bench_gk) \subseteq IdsOf(lineup.xi)
    /\ IdsOf(lineup.bench_gk) # {}

\* a solved lineup of a squad with three goalkeepers, one of whom is in
\* none of the three returned tables
ThirdGoalkeeperDropped ==
    /\ LineupSolved /\ Len(squad) = SquadSize /\ CountPos(squad, "GKP") = 3
    /\ IdsOf(squad) \ (IdsOf(lineup.xi) \cup IdsOf(lineup.bench_gk)
                         \cup IdsOf(lineup.bench_outfield)) # {}

\* C30: whether the Lineup Selector accepts a squad depends on the squad
\* alone: a squad of exactly 15 assets with valid categories is not refused,
\* whatever the projection table (no row, or more than one row, for some
\* asset and the target period), and the assets of a returned lineup are
\* the squad's.
C30_AcceptanceBySquadAlone ==
    (CallOver /\ ~InvalidSquad) =>
        /\ lineup # ValueError
        /\ pc = "returned" => IdsOf(lineup.xi) \subseteq IdsOf(squad)

\* C30 for projection tables with at most one row per (asset, period),
\* rows missing included
ValidSquadAcceptedOnSingleRows ==
    (CallOver /\ ~InvalidSquad /\ SingleRows(target_gw)) =>
        /\ lineup # ValueError
        /\ pc = "returned" => IdsOf(lineup.xi) \subseteq IdsOf(squad)

\* a valid squad refused because an asset of it has two projection rows
\* for the target period
ValidSquadRefusedOnDoubledRow ==
    /\ pc = "raised" /\ lineup = ValueError
    /\ ~InvalidSquad /\ ~SingleRows(target_gw)

\* a valid squad accepted with an asset that has no projection row
ValidSquadAcceptedOnMissingRow ==
    /\ LineupSolved /\ ~InvalidSquad
    /\ \E i \in 1..Len(squad) : NoRow(squad[i].player_id, target_gw)

====
